---- MODULE Spec2Model ----
(***************************************************************************)
(* A model of the MCQ generator: the App component (welcome / loading /    *)
(* results screens, quiz, answers, test submission), the Gemini service    *)
(* functions generateMcqsFromText and translateText, and the McqCard       *)
(* component with its lazy translation batch.                              *)
(*                                                                         *)
(* Texts are sequences of tokens.  A token is one character where the      *)
(* length of a text matters (PDF text, model replies) and one word where   *)
(* only equality and word-level containment matter (messages).  The        *)
(* whitespace tokens are " " and "\n".                                     *)
(*                                                                         *)
(* Three specifications share the variables:                               *)
(*   Spec         one browser session of the App component;                *)
(*   GatewaySpec  direct calls of the two service functions;               *)
(*   CardSpec     one mounted McqCard and its translation batches.         *)
(***************************************************************************)
EXTENDS Integers, Sequences, FiniteSets, TLC

VARIABLES
    appState,       \* 'welcome' | 'loading' | 'results'
    resultsMode,    \* 'study' | 'test'
    pdfFile,        \* the selected file, or NoFile
    mcqs,           \* the quiz: a sequence of MCQ records
    error,          \* the error message shown on the welcome screen, or Null
    testAnswers,    \* question index (0-based) -> chosen option
    showTestScore,  \* the test has been submitted
    pc,             \* where handleSubmit is suspended: idle, or the await it waits on
    pageNo,         \* handleSubmit/extractTextFromPdf: the loop variable i
    fullText,       \* extractTextFromPdf: the text accumulated so far
    apiKey,         \* process.env.API_KEY
    aiRequests,     \* generateContent requests issued since the last submit began
    quizReply,      \* the reply the last generation request settled with (history)
    lastAction,     \* the handler that ran last (history)
    call,           \* GatewaySpec: the service call in progress or returned
    card            \* CardSpec: the mounted McqCard (props, state, batch)

vars == <<appState, resultsMode, pdfFile, mcqs, error, testAnswers, showTestScore,
          pc, pageNo, fullText, apiKey, aiRequests, quizReply, lastAction, call, card>>

appVars == <<appState, resultsMode, pdfFile, mcqs, error, testAnswers, showTestScore,
             pc, pageNo, fullText, aiRequests, quizReply, lastAction>>

(***************************************************************************)
(* Bounds of the model.                                                    *)
(***************************************************************************)
\* The longest array the hosted model replies with.
MaxMcqs == 3

(***************************************************************************)
(* Values.                                                                 *)
(***************************************************************************)
\* JavaScript null for the React state that starts as null.
Null == <<"<null>">>

\* JavaScript undefined (also a JSON null or an absent field), as a text no
\* real text equals.
Undefined == <<"<undefined>">>

NoFile == "<no file>"

\* n characters of visible text.
Chars(n) == [k \in 1..n |-> "x"]

\* n spaces.
Spaces(n) == [k \in 1..n |-> " "]

IsWhitespace(t) == t \in {" ", "\n"}

\* A JavaScript value used as a condition: a text is truthy unless it is
\* empty or undefined.
Truthy(t) == t # <<>> /\ t # Undefined

RECURSIVE TrimStart(_)
TrimStart(s) ==
    IF s # <<>> /\ IsWhitespace(Head(s)) THEN TrimStart(Tail(s)) ELSE s

RECURSIVE TrimEnd(_)
TrimEnd(s) ==
    IF s # <<>> /\ IsWhitespace(s[Len(s)])
    THEN TrimEnd(SubSeq(s, 1, Len(s) - 1))
    ELSE s

\* String.prototype.trim
Trim(s) == TrimEnd(TrimStart(s))

\* Array.prototype.join(' ') of a page's text fragments.
RECURSIVE JoinSpace(_)
JoinSpace(items) ==
    IF items = <<>> THEN <<>>
    ELSE IF Len(items) = 1 THEN items[1]
    ELSE items[1] \o <<" ">> \o JoinSpace(Tail(items))

\* String.prototype.includes, at the granularity of tokens.
Includes(s, pat) ==
    \E k \in 0..(Len(s) - Len(pat)) : SubSeq(s, k + 1, k + Len(pat)) = pat

\* Array.prototype.includes
ArrayIncludes(arr, v) == \E k \in 1..Len(arr) : arr[k] = v

(***************************************************************************)
(* services/geminiService.ts                                               *)
(***************************************************************************)
\* A thrown value: an Error with its message, or something that is no Error.
Err(msg) == [isError |-> TRUE, message |-> msg]

NoError == [isError |-> FALSE, message |-> Undefined]

CredentialMsg ==
    <<"Google", "Gemini", "API", "Key", "is", "missing.", "Please", "set", "it",
      "as", "an", "environment", "variable", "named", "'API_KEY'">>

NotArrayMsg == <<"API", "did", "not", "return", "a", "valid", "array", "of", "MCQs.">>

GenerationFailedMsg ==
    <<"Failed", "to", "generate", "MCQs", "from", "the", "provided", "text.">>

TranslationFailed == <<"Translation", "failed.">>

\* What a JavaScript TypeError or SyntaxError carries; its words do not matter
\* beyond not naming the API key.
TypeErrorMsg == <<"Cannot", "read", "properties">>

SyntaxErrorMsg == <<"Unexpected", "token">>

\* The outcome of a call: a returned value or a thrown error.
Return(v) == [kind |-> "return", value |-> v, error |-> NoError]

Throw(e) == [kind |-> "throw", value |-> <<>>, error |-> e]

\* getAiInstance: throws when API_KEY is not set (undefined or empty).
GetAiInstance(key) ==
    IF ~Truthy(key) THEN Throw(Err(CredentialMsg)) ELSE Return(key)

\* The catch blocks' test: error instanceof Error && the message names the key.
IsApiKeyError(e) ==
    e.isError /\ (Includes(e.message, <<"API", "key">>) \/ Includes(e.message, <<"API", "Key">>))

\* The filter's callback.  Reading a property of a JSON null throws, which
\* FilterMcqs handles; here the element is an object.
KeepMcq(m) ==
    /\ Truthy(m.question)
    /\ m.optionsIsArray
    /\ Len(m.options) > 0
    /\ Truthy(m.answer)
    /\ ArrayIncludes(m.options, m.answer)

RECURSIVE FilterKept(_)
FilterKept(arr) ==
    IF arr = <<>> THEN <<>>
    ELSE IF KeepMcq(Head(arr)) THEN <<Head(arr)>> \o FilterKept(Tail(arr))
    ELSE FilterKept(Tail(arr))

\* generatedMcqs.filter(...): mcq.question of a null element is a TypeError.
FilterMcqs(arr) ==
    IF \E k \in 1..Len(arr) : arr[k].isNull
    THEN Throw(Err(TypeErrorMsg))
    ELSE Return(FilterKept(arr))

\* The try block of generateMcqsFromText, given the hosted model's reply.
GenerateTry(key, reply) ==
    IF GetAiInstance(key).kind = "throw" THEN GetAiInstance(key)
    ELSE IF reply.kind = "reject" THEN Throw(reply.error)
    ELSE IF reply.kind = "noText" THEN Throw(Err(TypeErrorMsg))
    ELSE IF reply.kind = "notJson" THEN Throw(Err(SyntaxErrorMsg))
    ELSE IF ~reply.isArray THEN Throw(Err(NotArrayMsg))
    ELSE FilterMcqs(reply.elements)

\* The catch block of generateMcqsFromText.
GenerateCatch(e) ==
    IF IsApiKeyError(e) THEN Throw(e) ELSE Throw(Err(GenerationFailedMsg))

GenerateMcqsFromText(key, reply) ==
    IF GenerateTry(key, reply).kind = "throw"
    THEN GenerateCatch(GenerateTry(key, reply).error)
    ELSE GenerateTry(key, reply)

\* Whether generateMcqsFromText reaches ai.models.generateContent.
GenerateIssuesRequest(key) == GetAiInstance(key).kind = "return"

\* The try block of translateText.
TranslateTry(key, reply) ==
    IF GetAiInstance(key).kind = "throw" THEN GetAiInstance(key)
    ELSE IF reply.kind = "reject" THEN Throw(reply.error)
    ELSE IF reply.kind = "noText" THEN Throw(Err(TypeErrorMsg))
    ELSE Return(Trim(reply.text))

\* A catch block that turns every error into the failure text.
TranslateCatchAll(e) == Return(TranslationFailed)

\* The catch block of translateText.
TranslateCatch(e) ==
    IF IsApiKeyError(e) THEN Throw(e) ELSE Return(TranslationFailed)

TranslateText(key, textToTranslate, reply) ==
    IF ~Truthy(textToTranslate) THEN Return(<<>>)
    ELSE IF TranslateTry(key, reply).kind = "throw"
    THEN TranslateCatch(TranslateTry(key, reply).error)
    ELSE TranslateTry(key, reply)

\* Whether translateText reaches ai.models.generateContent.
TranslateIssuesRequest(key, textToTranslate) ==
    Truthy(textToTranslate) /\ GetAiInstance(key).kind = "return"

(***************************************************************************)
(* Inputs: the files the user can pick, what the PDF library and the       *)
(* hosted model can answer.                                                *)
(***************************************************************************)
\* The pages of each PDF file, each page a sequence of text fragments.
FilePages(f) ==
    CASE f = "exact.pdf"  -> << <<Chars(100)>> >>
      [] f = "short.pdf"  -> << <<Chars(99)>> >>
      [] f = "two.pdf"    -> << <<Chars(49), Chars(49)>>, <<Chars(1)>> >>
      [] f = "padded.pdf" -> << <<Spaces(50), Chars(49)>> >>
      [] f = "blank.pdf"  -> << <<>>, <<>> >>

PdfFiles == {"exact.pdf", "short.pdf", "two.pdf", "padded.pdf", "blank.pdf"}

\* A file whose type is not application/pdf.
OtherFiles == {"notes.txt"}

FileType(f) == IF f \in PdfFiles THEN "application/pdf" ELSE "text/plain"

\* The text extractTextFromPdf returns for these pages.
RECURSIVE PagesText(_)
PagesText(pages) ==
    IF pages = <<>> THEN <<>>
    ELSE JoinSpace(Head(pages)) \o <<"\n", "\n">> \o PagesText(Tail(pages))

\* What file.arrayBuffer(), getDocument, getPage and getTextContent reject with.
PdfErrors == {Err(<<"Invalid", "PDF", "structure.">>), Err(<<>>)}

\* process.env.API_KEY: not set, set to the empty string, or set.
ApiKeys == {Undefined, <<>>, <<"k">>}

\* One element of the array the hosted model replies with.
Element(q, isArr, opts, a) ==
    [isNull |-> FALSE, question |-> q, optionsIsArray |-> isArr, options |-> opts,
     answer |-> a]

NullElement ==
    [isNull |-> TRUE, question |-> Undefined, optionsIsArray |-> FALSE,
     options |-> <<>>, answer |-> Undefined]

Elements ==
    { Element(<<"Q1">>, TRUE, <<<<"a">>, <<"b">>>>, <<"a">>),
      Element(<<"Q2">>, TRUE, <<<<>>, <<"b">>>>, <<"b">>),
      Element(<<"Q3">>, TRUE, <<<<"a">>, <<"b">>>>, <<"c">>),
      Element(<<"Q4">>, TRUE, <<<<>>, <<"b">>>>, <<>>),
      Element(<<>>, TRUE, <<<<"a">>>>, <<"a">>),
      Element(<<"Q6">>, FALSE, <<>>, <<"a">>),
      Element(<<"Q7">>, TRUE, <<>>, Undefined),
      NullElement }

\* Sequences over S of length at most n.
SeqUpTo(S, n) == UNION {[1..k -> S] : k \in 0..n}

Reply(kind, e, isArr, elems, text) ==
    [kind |-> kind, error |-> e, isArray |-> isArr, elements |-> elems, text |-> text]

\* What a rejected generateContent call rejects with.
ApiErrors ==
    { Err(<<"fetch", "failed">>),
      Err(<<"API", "key", "not", "valid.">>),
      [isError |-> FALSE, message |-> Undefined] }

\* The replies to a generation request: a rejection, a response without text,
\* text that is no JSON, JSON that is no array, and arrays.
GenerationReplies ==
    {Reply("reject", e, FALSE, <<>>, <<>>) : e \in ApiErrors}
    \cup {Reply("noText", NoError, FALSE, <<>>, <<>>),
          Reply("notJson", NoError, FALSE, <<>>, <<>>),
          Reply("json", NoError, FALSE, <<>>, <<>>)}
    \cup {Reply("json", NoError, TRUE, arr, <<>>) : arr \in SeqUpTo(Elements, MaxMcqs)}

\* The replies to a translation request: a rejection, a response without
\* text, and texts with and without surrounding whitespace.
TranslationReplies ==
    {Reply("reject", e, FALSE, <<>>, <<>>) : e \in ApiErrors}
    \cup {Reply("noText", NoError, FALSE, <<>>, <<>>)}
    \cup {Reply("text", NoError, FALSE, <<>>, t) : t \in {<<"A">>, <<" ", "B", "\n">>}}

\* The texts translateText is called with.
TextsToTranslate == {<<>>, <<"a">>, <<"b">>, <<"Q1">>, <<"Q2">>}

(***************************************************************************)
(* The App component.                                                      *)
(***************************************************************************)
\* text.trim().length < 100
MinTextLength == 100

TooShortMsg ==
    <<"Text", "extracted", "from", "PDF", "is", "too", "short.">>

NoAnswers == <<>>

\* testAnswers[index]
AnswerAt(answers, index) ==
    IF index \in DOMAIN answers THEN answers[index] ELSE Undefined

\* { ...prev, [questionIndex]: answer }
WithAnswer(prev, questionIndex, answer) ==
    [k \in (DOMAIN prev) \cup {questionIndex} |->
        IF k = questionIndex THEN answer ELSE prev[k]]

\* calculateScore: the reduce over mcqs, from index 0.
RECURSIVE ScoreFrom(_, _, _)
ScoreFrom(quiz, answers, index) ==
    IF index >= Len(quiz) THEN 0
    ELSE (IF AnswerAt(answers, index) = quiz[index + 1].answer THEN 1 ELSE 0)
         + ScoreFrom(quiz, answers, index + 1)

\* The reduce started at the second question.
CalculateScoreFromSecond(quiz, answers) == ScoreFrom(quiz, answers, 1)

CalculateScore(quiz, answers) == ScoreFrom(quiz, answers, 0)

score == CalculateScore(mcqs, testAnswers)

\* Object.keys(testAnswers).length
AnsweredCount == Cardinality(DOMAIN testAnswers)

\* showAnswer without the submitted test.
ShowAnswerInStudyOnly == resultsMode = "study"

\* The showAnswer prop every card is given.
ShowAnswer == resultsMode = "study" \/ showTestScore

\* The "Test Complete!" summary is rendered.
SummaryShown == appState = "results" /\ showTestScore /\ resultsMode = "test"

\* The Submit Test button is rendered.
SubmitTestShown ==
    appState = "results" /\ resultsMode = "test" /\ ~showTestScore /\ Len(mcqs) > 0

\* isTestModeActive without its test of showAnswer.
IsTestModeActiveWhenever(mode, showAnswer) == mode = "test"

\* McqCard: isTestModeActive, from the props mode and showAnswer.
IsTestModeActive(mode, showAnswer) == mode = "test" /\ ~showAnswer

\* McqCard: getOptionClasses, as the kind of highlighting it returns.
GetOptionClasses(mcq, userAnswer, showAnswer, option) ==
    IF showAnswer
    THEN IF option = mcq.answer THEN "correct"
         ELSE IF userAnswer = option /\ option # mcq.answer THEN "incorrect"
         ELSE "plain"
    ELSE IF userAnswer = option THEN "selected" ELSE "neutral"

\* McqCard: the "Correct Answer" box is rendered.
CorrectAnswerBoxShown(mode, showAnswer) == showAnswer /\ mode = "study"

NoReply == [kind |-> "none", error |-> NoError, isArray |-> FALSE, elements |-> <<>>, text |-> <<>>]

\* GatewaySpec: no service call has been made.
IdleCall ==
    [fn |-> "none", text |-> <<>>, reply |-> NoReply, outcome |-> Return(<<>>),
     requests |-> 0]

NoTranslation == [present |-> FALSE, question |-> <<>>, options |-> <<>>]

\* CardSpec: the state of another card of the list, without the texts of its
\* translation; index -1 when the quiz has one question.
NoOther ==
    [index |-> 0 - 1, translated |-> FALSE, isTranslating |-> FALSE,
     showTranslation |-> FALSE]

\* CardSpec: no card is mounted.
Unmounted ==
    [mounted |-> FALSE, mcq |-> NullElement, index |-> 0,
     translation |-> NoTranslation, isTranslating |-> FALSE, showTranslation |-> FALSE,
     pending |-> {}, settled |-> <<>>, requests |-> 0, other |-> NoOther]

Init ==
    /\ appState = "welcome"
    /\ resultsMode = "study"
    /\ pdfFile = NoFile
    /\ mcqs = <<>>
    /\ error = Null
    /\ testAnswers = NoAnswers
    /\ showTestScore = FALSE
    /\ pc = "idle"
    /\ pageNo = 0
    /\ fullText = <<>>
    /\ apiKey \in ApiKeys
    /\ aiRequests = 0
    /\ quizReply = NoReply
    /\ lastAction = "init"
    /\ call = IdleCall
    /\ card = Unmounted

\* A file input that is rendered on every screen.
HandleFileChangeOnEveryScreen(file) ==
    /\ IF file # NoFile /\ FileType(file) = "application/pdf"
       THEN pdfFile' = file /\ error' = Null
       ELSE pdfFile' = NoFile /\ error' = <<"Please", "select", "a", "valid", "PDF", "file.">>
    /\ lastAction' = "handleFileChange"
    /\ UNCHANGED <<quizReply, appState, resultsMode, mcqs, testAnswers, showTestScore, pc, pageNo,
                   fullText, apiKey, aiRequests, call, card>>

\* handleFileChange; file is NoFile when the picker is cancelled.
HandleFileChange(file) ==
    /\ appState = "welcome"
    /\ IF file # NoFile /\ FileType(file) = "application/pdf"
       THEN pdfFile' = file /\ error' = Null
       ELSE pdfFile' = NoFile /\ error' = <<"Please", "select", "a", "valid", "PDF", "file.">>
    /\ lastAction' = "handleFileChange"
    /\ UNCHANGED <<quizReply, appState, resultsMode, mcqs, testAnswers, showTestScore, pc, pageNo,
                   fullText, apiKey, aiRequests, call, card>>

\* A catch block that reports the error without setAppState('welcome').
CatchStaysOnLoading(e) ==
    /\ error' = <<"An", "error", "occurred:">> \o
                (IF Truthy(e.message) THEN e.message
                 ELSE <<"Failed", "to", "generate", "questions.">>)
    /\ appState' = appState
    /\ pc' = "idle"
    /\ pageNo' = 0
    /\ fullText' = <<>>

\* handleSubmit's catch block: the message shown, and back to welcome.
Catch(e) ==
    /\ error' = <<"An", "error", "occurred:">> \o
                (IF Truthy(e.message) THEN e.message
                 ELSE <<"Failed", "to", "generate", "questions.">>)
    /\ appState' = "welcome"
    /\ pc' = "idle"
    /\ pageNo' = 0
    /\ fullText' = <<>>

\* A handleSubmit that leaves testAnswers as it finds them.
HandleSubmitKeepsAnswers ==
    /\ appState = "welcome"
    /\ pc = "idle"
    /\ IF pdfFile = NoFile
       THEN /\ error' = <<"Please", "select", "a", "PDF", "file", "first.">>
            /\ UNCHANGED <<appState, mcqs, showTestScore, testAnswers, pc, aiRequests,
                           quizReply>>
       ELSE /\ appState' = "loading"
            /\ error' = Null
            /\ mcqs' = <<>>
            /\ showTestScore' = FALSE
            /\ pc' = "arrayBuffer"
            /\ aiRequests' = 0
            /\ quizReply' = NoReply
            /\ UNCHANGED testAnswers
    /\ lastAction' = "handleSubmit"
    /\ UNCHANGED <<resultsMode, pdfFile, pageNo, fullText, apiKey, call, card>>

\* handleSubmit up to its first await, or its early return without a file
\* (the submit button is disabled then, and the handler tests it again).
HandleSubmit ==
    /\ appState = "welcome"
    /\ pc = "idle"
    /\ IF pdfFile = NoFile
       THEN /\ error' = <<"Please", "select", "a", "PDF", "file", "first.">>
            /\ UNCHANGED <<appState, mcqs, showTestScore, testAnswers, pc, aiRequests,
                           quizReply>>
       ELSE /\ appState' = "loading"
            /\ error' = Null
            /\ mcqs' = <<>>
            /\ showTestScore' = FALSE
            /\ testAnswers' = NoAnswers
            /\ pc' = "arrayBuffer"
            /\ aiRequests' = 0
            /\ quizReply' = NoReply
    /\ lastAction' = "handleSubmit"
    /\ UNCHANGED <<resultsMode, pdfFile, pageNo, fullText, apiKey, call, card>>

\* An await of handleSubmit rejects: file.arrayBuffer(), getDocument, getPage
\* or getTextContent.
ExtractionRejects(e) ==
    /\ pc \in {"arrayBuffer", "getDocument", "getPage", "getTextContent"}
    /\ Catch(e)
    /\ lastAction' = "extractionRejects"
    /\ UNCHANGED <<quizReply, resultsMode, pdfFile, mcqs, testAnswers, showTestScore, apiKey,
                   aiRequests, call, card>>

\* file.arrayBuffer() resolves.
ArrayBufferResolves ==
    /\ pc = "arrayBuffer"
    /\ pc' = "getDocument"
    /\ lastAction' = "arrayBuffer"
    /\ UNCHANGED <<quizReply, appState, resultsMode, pdfFile, mcqs, error, testAnswers,
                   showTestScore, pageNo, fullText, apiKey, aiRequests, call, card>>

\* The length check without trim().
ExtractedUntrimmed(text) ==
    IF Len(text) < MinTextLength
    THEN Catch(Err(TooShortMsg)) /\ UNCHANGED aiRequests
    ELSE IF GenerateIssuesRequest(apiKey)
    THEN /\ pc' = "generateContent"
         /\ aiRequests' = aiRequests + 1
         /\ pageNo' = 0
         /\ fullText' = text
         /\ UNCHANGED <<appState, error>>
    ELSE /\ Catch(GenerateMcqsFromText(apiKey, NoReply).error)
         /\ UNCHANGED aiRequests

\* handleSubmit from the return of extractTextFromPdf to its next await: the
\* length check, and generateMcqsFromText up to generateContent.  fullText
\* then stands for handleSubmit's text, which is in the prompt of the request.
Extracted(text) ==
    IF Len(Trim(text)) < MinTextLength
    THEN Catch(Err(TooShortMsg)) /\ UNCHANGED aiRequests
    ELSE IF GenerateIssuesRequest(apiKey)
    THEN /\ pc' = "generateContent"
         /\ aiRequests' = aiRequests + 1
         /\ pageNo' = 0
         /\ fullText' = text
         /\ UNCHANGED <<appState, error>>
    ELSE /\ Catch(GenerateMcqsFromText(apiKey, NoReply).error)
         /\ UNCHANGED aiRequests

\* The for loop of extractTextFromPdf at its test, with i and fullText given.
Loop(i, text) ==
    IF i <= Len(FilePages(pdfFile))
    THEN /\ pc' = "getPage"
         /\ pageNo' = i
         /\ fullText' = text
         /\ UNCHANGED <<appState, error, aiRequests>>
    ELSE Extracted(text)

\* getDocument resolves: the loop starts at page 1.
GetDocumentResolves ==
    /\ pc = "getDocument"
    /\ Loop(1, <<>>)
    /\ lastAction' = "getDocument"
    /\ UNCHANGED <<quizReply, resultsMode, pdfFile, mcqs, testAnswers, showTestScore, apiKey,
                   call, card>>

\* pdf.getPage(i) resolves.
GetPageResolves ==
    /\ pc = "getPage"
    /\ pc' = "getTextContent"
    /\ lastAction' = "getPage"
    /\ UNCHANGED <<quizReply, appState, resultsMode, pdfFile, mcqs, error, testAnswers,
                   showTestScore, pageNo, fullText, apiKey, aiRequests, call, card>>

\* A loop body that puts the page's text in front of the text so far.
GetTextContentResolvesInFront ==
    /\ pc = "getTextContent"
    /\ Loop(pageNo + 1,
            JoinSpace(FilePages(pdfFile)[pageNo]) \o <<"\n", "\n">> \o fullText)
    /\ lastAction' = "getTextContent"
    /\ UNCHANGED <<quizReply, resultsMode, pdfFile, mcqs, testAnswers, showTestScore, apiKey,
                   call, card>>

\* page.getTextContent() resolves: the page's text is appended, then i++.
GetTextContentResolves ==
    /\ pc = "getTextContent"
    /\ Loop(pageNo + 1,
            fullText \o JoinSpace(FilePages(pdfFile)[pageNo]) \o <<"\n", "\n">>)
    /\ lastAction' = "getTextContent"
    /\ UNCHANGED <<quizReply, resultsMode, pdfFile, mcqs, testAnswers, showTestScore, apiKey,
                   call, card>>

\* generateContent settles with reply: the rest of generateMcqsFromText and
\* of handleSubmit.
GenerateContentSettles(reply) ==
    /\ pc = "generateContent"
    /\ IF GenerateMcqsFromText(apiKey, reply).kind = "return"
       THEN /\ mcqs' = GenerateMcqsFromText(apiKey, reply).value
            /\ appState' = "results"
            /\ resultsMode' = "study"
            /\ pc' = "idle"
            /\ fullText' = <<>>
            /\ UNCHANGED <<error, pageNo>>
       ELSE /\ Catch(GenerateMcqsFromText(apiKey, reply).error)
            /\ UNCHANGED <<mcqs, resultsMode>>
    /\ quizReply' = reply
    /\ lastAction' = "generateContent"
    /\ UNCHANGED <<pdfFile, testAnswers, showTestScore, apiKey, aiRequests, call, card>>

\* A Start Over that keeps the quiz.
HandleTryAgainKeepsQuiz ==
    /\ appState = "results"
    /\ appState' = "welcome"
    /\ pdfFile' = NoFile
    /\ error' = Null
    /\ quizReply' = NoReply
    /\ lastAction' = "handleTryAgain"
    /\ UNCHANGED <<resultsMode, mcqs, testAnswers, showTestScore, pc, pageNo, fullText,
                   apiKey, aiRequests, call, card>>

\* handleTryAgain: the Start Over button.
HandleTryAgain ==
    /\ appState = "results"
    /\ appState' = "welcome"
    /\ pdfFile' = NoFile
    /\ mcqs' = <<>>
    /\ error' = Null
    /\ quizReply' = NoReply
    /\ lastAction' = "handleTryAgain"
    /\ UNCHANGED <<resultsMode, testAnswers, showTestScore, pc, pageNo, fullText,
                   apiKey, aiRequests, call, card>>

\* A Study Mode button that leaves showTestScore as it is.
StudyModeClickKeepsScore ==
    /\ appState = "results"
    /\ resultsMode' = "study"
    /\ lastAction' = "studyMode"
    /\ UNCHANGED <<quizReply, appState, pdfFile, mcqs, error, testAnswers, showTestScore,
                   pc, pageNo, fullText, apiKey, aiRequests, call, card>>

\* The Study Mode button.
StudyModeClick ==
    /\ appState = "results"
    /\ resultsMode' = "study"
    /\ showTestScore' = FALSE
    /\ lastAction' = "studyMode"
    /\ UNCHANGED <<quizReply, appState, pdfFile, mcqs, error, testAnswers, pc, pageNo, fullText,
                   apiKey, aiRequests, call, card>>

\* A Test Mode button that starts the test afresh.
TestModeClickClearsAnswers ==
    /\ appState = "results"
    /\ resultsMode' = "test"
    /\ testAnswers' = NoAnswers
    /\ lastAction' = "testMode"
    /\ UNCHANGED <<quizReply, appState, pdfFile, mcqs, error, showTestScore, pc,
                   pageNo, fullText, apiKey, aiRequests, call, card>>

\* A Test Mode button that starts a new attempt.
TestModeClickRestartsTest ==
    /\ appState = "results"
    /\ resultsMode' = "test"
    /\ showTestScore' = FALSE
    /\ lastAction' = "testMode"
    /\ UNCHANGED <<quizReply, appState, pdfFile, mcqs, error, testAnswers, pc,
                   pageNo, fullText, apiKey, aiRequests, call, card>>

\* The Test Mode button.
TestModeClick ==
    /\ appState = "results"
    /\ resultsMode' = "test"
    /\ lastAction' = "testMode"
    /\ UNCHANGED <<quizReply, appState, pdfFile, mcqs, error, testAnswers, showTestScore, pc,
                   pageNo, fullText, apiKey, aiRequests, call, card>>

\* A handleAnswerSelect that replaces the AnswerSet by the new answer alone.
HandleAnswerSelectAlone(questionIndex, o) ==
    /\ appState = "results"
    /\ questionIndex \in 0..(Len(mcqs) - 1)
    /\ o \in 1..Len(mcqs[questionIndex + 1].options)
    /\ IsTestModeActive(resultsMode, ShowAnswer)
    /\ testAnswers' = WithAnswer(NoAnswers, questionIndex,
                                 mcqs[questionIndex + 1].options[o])
    /\ lastAction' = "handleAnswerSelect"
    /\ UNCHANGED <<quizReply, appState, resultsMode, pdfFile, mcqs, error, showTestScore, pc,
                   pageNo, fullText, apiKey, aiRequests, call, card>>

\* handleAnswerSelect, from the click of option number o (from 1) of card
\* questionIndex; the button is disabled unless isTestModeActive.
HandleAnswerSelect(questionIndex, o) ==
    /\ appState = "results"
    /\ questionIndex \in 0..(Len(mcqs) - 1)
    /\ o \in 1..Len(mcqs[questionIndex + 1].options)
    /\ IsTestModeActive(resultsMode, ShowAnswer)
    /\ testAnswers' = WithAnswer(testAnswers, questionIndex,
                                 mcqs[questionIndex + 1].options[o])
    /\ lastAction' = "handleAnswerSelect"
    /\ UNCHANGED <<quizReply, appState, resultsMode, pdfFile, mcqs, error, showTestScore, pc,
                   pageNo, fullText, apiKey, aiRequests, call, card>>

\* handleSubmitTest: the Submit Test button.
HandleSubmitTest ==
    /\ SubmitTestShown
    /\ showTestScore' = TRUE
    /\ lastAction' = "handleSubmitTest"
    /\ UNCHANGED <<quizReply, appState, resultsMode, pdfFile, mcqs, error, testAnswers, pc, pageNo,
                   fullText, apiKey, aiRequests, call, card>>

\* The longest options array among the replies.
MaxOptions == 2

Next ==
    \/ \E file \in PdfFiles \cup OtherFiles \cup {NoFile} : HandleFileChange(file)
    \/ HandleSubmit
    \/ \E e \in PdfErrors : ExtractionRejects(e)
    \/ ArrayBufferResolves
    \/ GetDocumentResolves
    \/ GetPageResolves
    \/ GetTextContentResolves
    \/ \E reply \in GenerationReplies : GenerateContentSettles(reply)
    \/ HandleTryAgain
    \/ StudyModeClick
    \/ TestModeClick
    \/ \E i \in 0..(MaxMcqs - 1), o \in 1..MaxOptions : HandleAnswerSelect(i, o)
    \/ HandleSubmitTest

Spec == Init /\ [][Next]_vars

(***************************************************************************)
(* LiveSpec: the session, with every await of handleSubmit settling: the   *)
(* promise it waits for is resolved or rejected, and the event loop then   *)
(* runs the continuation.                                                  *)
(***************************************************************************)
\* The await handleSubmit is suspended at settles, either way.  (The reply is
\* the one GenerateContentSettles records in quizReply.)
AwaitSettles ==
    /\ pc # "idle"
    /\ \/ \E e \in PdfErrors : ExtractionRejects(e)
       \/ ArrayBufferResolves
       \/ GetDocumentResolves
       \/ GetPageResolves
       \/ GetTextContentResolves
       \/ pc = "generateContent"
            /\ \E reply \in GenerationReplies :
                    quizReply' = reply /\ GenerateContentSettles(reply)

LiveSpec == Init /\ [][Next]_vars /\ WF_vars(AwaitSettles)

(***************************************************************************)
(* GatewaySpec: generateMcqsFromText and translateText called directly,    *)
(* with any API_KEY and any reply of the hosted model.                     *)
(***************************************************************************)
\* generateMcqsFromText(text, numQuestions) is called and settles.
CallGenerate(reply) ==
    /\ call.fn = "none"
    /\ reply.kind = "none" <=> ~GenerateIssuesRequest(apiKey)
    /\ call' = [fn |-> "generateMcqsFromText", text |-> <<>>, reply |-> reply,
                outcome |-> GenerateMcqsFromText(apiKey, reply),
                requests |-> IF GenerateIssuesRequest(apiKey) THEN 1 ELSE 0]
    /\ UNCHANGED <<appVars, apiKey, card>>

\* translateText(textToTranslate) is called and settles.
CallTranslate(textToTranslate, reply) ==
    /\ call.fn = "none"
    /\ reply.kind = "none" <=> ~TranslateIssuesRequest(apiKey, textToTranslate)
    /\ call' = [fn |-> "translateText", text |-> textToTranslate, reply |-> reply,
                outcome |-> TranslateText(apiKey, textToTranslate, reply),
                requests |-> IF TranslateIssuesRequest(apiKey, textToTranslate) THEN 1 ELSE 0]
    /\ UNCHANGED <<appVars, apiKey, card>>

\* The caller is done with the outcome.
CallDone ==
    /\ call.fn # "none"
    /\ call' = IdleCall
    /\ UNCHANGED <<appVars, apiKey, card>>

GatewayNext ==
    \/ \E reply \in GenerationReplies \cup {NoReply} : CallGenerate(reply)
    \/ \E t \in TextsToTranslate, reply \in TranslationReplies \cup {NoReply} :
            CallTranslate(t, reply)
    \/ CallDone

GatewaySpec == Init /\ [][GatewayNext]_vars

(***************************************************************************)
(* The McqCard component: one mounted card.                                *)
(***************************************************************************)
\* The texts handed to Promise.all, in order: the question, then the options.
BatchTexts(mcq) == <<mcq.question>> \o mcq.options

\* The translateText calls that settle without a request (an empty text, a
\* missing key), in call order from request number k.
RECURSIVE SettledAtOnce(_, _, _)
SettledAtOnce(key, texts, k) ==
    IF k > Len(texts) THEN <<>>
    ELSE IF TranslateIssuesRequest(key, texts[k])
    THEN SettledAtOnce(key, texts, k + 1)
    ELSE <<[request |-> k, text |-> texts[k],
            outcome |-> TranslateText(key, texts[k], NoReply)]>>
         \o SettledAtOnce(key, texts, k + 1)

\* Promise.all has something to hand to the await: an input rejected, or all
\* n are fulfilled.
PromiseAllSettled(n, settled) ==
    \/ \E k \in 1..Len(settled) : settled[k].outcome.kind = "throw"
    \/ Len(settled) = n

\* The values in the order the promises settled.
PromiseAllInSettlementOrder(n, settled) ==
    IF \E k \in 1..Len(settled) : settled[k].outcome.kind = "throw"
    THEN settled[CHOOSE k \in 1..Len(settled) :
                    /\ settled[k].outcome.kind = "throw"
                    /\ \A j \in 1..(k - 1) : settled[j].outcome.kind # "throw"].outcome
    ELSE Return([i \in 1..n |-> settled[i].outcome.value])

\* Promise.all over n promises that settled in the order of `settled`: the
\* first rejection, or the values in the order the promises were given.
PromiseAll(n, settled) ==
    IF \E k \in 1..Len(settled) : settled[k].outcome.kind = "throw"
    THEN settled[CHOOSE k \in 1..Len(settled) :
                    /\ settled[k].outcome.kind = "throw"
                    /\ \A j \in 1..(k - 1) : settled[j].outcome.kind # "throw"].outcome
    ELSE Return([i \in 1..n |->
                    settled[CHOOSE k \in 1..Len(settled) : settled[k].request = i].outcome.value])

\* const [tQuestion, ...tOptions] = values; setTranslation({...})
TranslationOf(values) ==
    [present |-> TRUE, question |-> Head(values), options |-> Tail(values)]

\* The states the App is in when generation has just succeeded with a
\* non-empty quiz, one of its cards, freshly mounted, and another one if the
\* quiz has more than one.
CardInit ==
    /\ appState = "results"
    /\ resultsMode = "study"
    /\ pdfFile \in {f \in PdfFiles : Len(Trim(PagesText(FilePages(f)))) >= MinTextLength}
    /\ mcqs \in {FilterKept(arr) : arr \in SeqUpTo(Elements \ {NullElement}, MaxMcqs)}
    /\ Len(mcqs) > 0
    /\ error = Null
    /\ testAnswers = NoAnswers
    /\ showTestScore = FALSE
    /\ pc = "idle"
    /\ pageNo = 0
    /\ fullText = <<>>
    /\ apiKey \in {k \in ApiKeys : Truthy(k)}
    /\ aiRequests = 1
    /\ quizReply = Reply("json", NoError, TRUE, mcqs, <<>>)
    /\ lastAction = "generateContent"
    /\ call = IdleCall
    /\ \E index \in 0..(Len(mcqs) - 1) :
        \E j \in IF Len(mcqs) = 1 THEN {0 - 1} ELSE (0..(Len(mcqs) - 1)) \ {index} :
          card = [Unmounted EXCEPT !.mounted = TRUE, !.mcq = mcqs[index + 1],
                                   !.index = index, !.other.index = j]

\* A handleTranslate that fetches on every click, translated or not.
HandleTranslateAlwaysFetches ==
    /\ card.mounted
    /\ ~card.isTranslating
    /\ card' = [card EXCEPT
                !.isTranslating = TRUE,
                !.settled = SettledAtOnce(apiKey, BatchTexts(card.mcq), 1),
                !.pending = {k \in 1..Len(BatchTexts(card.mcq)) :
                                TranslateIssuesRequest(apiKey, BatchTexts(card.mcq)[k])},
                !.requests = Cardinality({k \in 1..Len(BatchTexts(card.mcq)) :
                                TranslateIssuesRequest(apiKey, BatchTexts(card.mcq)[k])})]
    /\ UNCHANGED <<appVars, apiKey, call>>

\* handleTranslate up to its await; the button is disabled while translating.
HandleTranslate ==
    /\ card.mounted
    /\ ~card.isTranslating
    /\ IF card.translation.present
       THEN card' = [card EXCEPT !.showTranslation = ~card.showTranslation]
       ELSE card' = [card EXCEPT
                !.isTranslating = TRUE,
                !.settled = SettledAtOnce(apiKey, BatchTexts(card.mcq), 1),
                !.pending = {k \in 1..Len(BatchTexts(card.mcq)) :
                                TranslateIssuesRequest(apiKey, BatchTexts(card.mcq)[k])},
                !.requests = Cardinality({k \in 1..Len(BatchTexts(card.mcq)) :
                                TranslateIssuesRequest(apiKey, BatchTexts(card.mcq)[k])})]
    /\ UNCHANGED <<appVars, apiKey, call>>

\* The generateContent request of translateText call number k settles with
\* reply, and so does that call.
TranslateSettles(k, reply) ==
    /\ card.mounted
    /\ card.isTranslating
    /\ k \in card.pending
    /\ card' = [card EXCEPT
            !.pending = card.pending \ {k},
            !.settled = Append(card.settled,
                [request |-> k, text |-> BatchTexts(card.mcq)[k],
                 outcome |-> TranslateText(apiKey, BatchTexts(card.mcq)[k], reply)])]
    /\ UNCHANGED <<appVars, apiKey, call>>

\* A handleTranslate without its finally block: isTranslating is reset only
\* after the translation is set.
AwaitResumesWithoutFinally ==
    /\ card.mounted
    /\ card.isTranslating
    /\ PromiseAllSettled(Len(BatchTexts(card.mcq)), card.settled)
    /\ IF PromiseAll(Len(BatchTexts(card.mcq)), card.settled).kind = "return"
       THEN card' = [card EXCEPT
                !.translation = TranslationOf(
                    PromiseAll(Len(BatchTexts(card.mcq)), card.settled).value),
                !.showTranslation = TRUE,
                !.isTranslating = FALSE,
                !.pending = {}]
       ELSE card' = [card EXCEPT !.pending = {}]
    /\ UNCHANGED <<appVars, apiKey, call>>

\* handleTranslate from its await to its end.  The calls still pending after a
\* rejection settle unobserved, so they are dropped here.
AwaitResumes ==
    /\ card.mounted
    /\ card.isTranslating
    /\ PromiseAllSettled(Len(BatchTexts(card.mcq)), card.settled)
    /\ IF PromiseAll(Len(BatchTexts(card.mcq)), card.settled).kind = "return"
       THEN card' = [card EXCEPT
                !.translation = TranslationOf(
                    PromiseAll(Len(BatchTexts(card.mcq)), card.settled).value),
                !.showTranslation = TRUE,
                !.isTranslating = FALSE,
                !.pending = {}]
       ELSE card' = [card EXCEPT !.isTranslating = FALSE, !.pending = {}]
    /\ UNCHANGED <<appVars, apiKey, call>>

\* handleTranslate of the other card up to its await.
OtherHandleTranslate ==
    /\ card.mounted
    /\ card.other.index >= 0
    /\ ~card.other.isTranslating
    /\ IF card.other.translated
       THEN card' = [card EXCEPT !.other.showTranslation = ~card.other.showTranslation]
       ELSE card' = [card EXCEPT !.other.isTranslating = TRUE]
    /\ UNCHANGED <<appVars, apiKey, call>>

\* handleTranslate of the other card from its await to its end; fulfilled
\* tells whether its Promise.all was fulfilled.
OtherAwaitResumes(fulfilled) ==
    /\ card.mounted
    /\ card.other.isTranslating
    /\ IF fulfilled
       THEN card' = [card EXCEPT !.other.translated = TRUE,
                                 !.other.showTranslation = TRUE,
                                 !.other.isTranslating = FALSE]
       ELSE card' = [card EXCEPT !.other.isTranslating = FALSE]
    /\ UNCHANGED <<appVars, apiKey, call>>

CardNext ==
    \/ HandleTranslate
    \/ \E k \in 1..(MaxOptions + 1), reply \in TranslationReplies : TranslateSettles(k, reply)
    \/ AwaitResumes
    \/ OtherHandleTranslate
    \/ \E fulfilled \in BOOLEAN : OtherAwaitResumes(fulfilled)

CardSpec == CardInit /\ [][CardNext]_vars

(***************************************************************************)
(* Properties.                                                             *)
(***************************************************************************)
AnErrorOccurred(msg) == <<"An", "error", "occurred:">> \o msg

\* The cards rendered: the indices of the quiz on the results screen.
Cards == IF appState = "results" THEN 0..(Len(mcqs) - 1) ELSE {}

\* An element with a non-empty question, a non-empty options array and a
\* non-empty answer that is one of the options.
WellFormed(m) ==
    /\ ~m.isNull
    /\ m.question \notin {<<>>, Undefined}
    /\ m.optionsIsArray
    /\ m.options # <<>>
    /\ m.answer \notin {<<>>, Undefined}
    /\ \E k \in DOMAIN m.options : m.options[k] = m.answer

\* The same without the demand that the answer is non-empty.
WellFormedAsClaimed(m) ==
    /\ ~m.isNull
    /\ m.question \notin {<<>>, Undefined}
    /\ m.optionsIsArray
    /\ m.options # <<>>
    /\ \E k \in DOMAIN m.options : m.options[k] = m.answer

HasNullElement(reply) == \E k \in DOMAIN reply.elements : reply.elements[k].isNull

\* C1 as stated: every MCQ of the quiz has a non-empty question, non-empty
\* options and an answer among its options, and for every reply that is a JSON
\* array the quiz is exactly the elements passing these checks, in order.
C1_QuizIsExactlyTheCheckedElements ==
    /\ \A i \in DOMAIN mcqs : WellFormedAsClaimed(mcqs[i])
    /\ (lastAction = "generateContent" /\ quizReply.kind = "json" /\ quizReply.isArray)
        => /\ appState = "results"
           /\ mcqs = SelectSeq(quizReply.elements, WellFormedAsClaimed)

\* What the code does: every MCQ of the quiz has a non-empty question,
\* non-empty options and a non-empty answer among its options; for a reply that
\* is a JSON array of objects the quiz is exactly the elements passing these
\* checks, in their order, and a reply holding a null element yields no quiz
\* but the generic generation error.
QuizIsTheFilteredReply ==
    /\ \A i \in DOMAIN mcqs : WellFormed(mcqs[i])
    /\ (lastAction = "generateContent" /\ quizReply.kind = "json" /\ quizReply.isArray)
        => IF HasNullElement(quizReply)
           THEN /\ appState = "welcome"
                /\ mcqs = <<>>
                /\ error = AnErrorOccurred(GenerationFailedMsg)
           ELSE /\ appState = "results"
                /\ mcqs = SelectSeq(quizReply.elements, WellFormed)
    /\ appState = "results"
        => /\ quizReply.kind = "json" /\ quizReply.isArray /\ ~HasNullElement(quizReply)
           /\ mcqs = SelectSeq(quizReply.elements, WellFormed)

\* A reply of three elements whose second one is dropped has reached the
\* results screen as a quiz of two.
FilteredReplyReached ==
    /\ appState = "results"
    /\ Len(quizReply.elements) = 3
    /\ ~WellFormed(quizReply.elements[2])
    /\ mcqs = <<quizReply.elements[1], quizReply.elements[3]>>

\* Every question of the quiz is answered with its correct answer.
AllAnsweredCorrectly ==
    /\ DOMAIN testAnswers = 0..(Len(mcqs) - 1)
    /\ \A i \in DOMAIN testAnswers : testAnswers[i] = mcqs[i + 1].answer

\* C2: on a non-empty quiz the score of the empty AnswerSet is 0, and the
\* score of an AnswerSet that answers every question correctly is the length
\* of the quiz.
C2_ScoreOfNoneAndOfAll ==
    mcqs # <<>> =>
        /\ testAnswers = NoAnswers => score = 0
        /\ AllAnsweredCorrectly => score = Len(mcqs)

\* A quiz of at least two questions, all answered correctly.
C2_Witness ==
    /\ appState = "results"
    /\ Len(mcqs) >= 2
    /\ AllAnsweredCorrectly
    /\ score = Len(mcqs)

\* C3: a click on the Study Mode or the Test Mode button leaves the AnswerSet
\* as it was: no entry is removed, added or changed.
C3_ModeTogglesKeepAnswers ==
    [][(StudyModeClick \/ TestModeClick) => testAnswers' = testAnswers]_vars

\* Study Mode was clicked with answers recorded, which is only possible in an
\* unsubmitted or submitted test: the switch from test to study kept them.
C3_Witness ==
    /\ lastAction = "studyMode"
    /\ resultsMode = "study"
    /\ Cardinality(DOMAIN testAnswers) >= 2

\* The value translateText call number k of the card's batch settled with.
SettledValue(k) ==
    LET e == CHOOSE e \in {card.settled[j] : j \in DOMAIN card.settled} : e.request = k
    IN  e.outcome.value

\* C4: the Translation attached to a card has, as its question, the result of
\* the request for the question and, as options[i], the result of the request
\* for the original options[i], whatever the order the requests settled in.
C4_TranslationFollowsRequestOrder ==
    (card.mounted /\ card.translation.present) =>
        /\ {card.settled[j].request : j \in DOMAIN card.settled}
               = 1..(Len(card.mcq.options) + 1)
        /\ \A j \in DOMAIN card.settled :
               card.settled[j].text = BatchTexts(card.mcq)[card.settled[j].request]
        /\ card.translation.question = SettledValue(1)
        /\ DOMAIN card.translation.options = DOMAIN card.mcq.options
        /\ \A i \in DOMAIN card.mcq.options :
               card.translation.options[i] = SettledValue(i + 1)

\* A Translation attached after the request for the last option settled first
\* and the request for the question last, with three different results.
C4_Witness ==
    /\ card.mounted
    /\ card.translation.present
    /\ Len(card.settled) = 3
    /\ card.settled[1].request = 3
    /\ card.settled[3].request = 1
    /\ Cardinality({card.settled[j].outcome.value : j \in 1..3}) = 3

\* C5: with API_KEY missing, generateMcqsFromText and translateText throw the
\* same error, the one getAiInstance raises; it is never the generic
\* generation error nor the translation failure text, and no request is issued.
\* (translateText of an empty text returns the empty text without looking for
\* the key.)
C5_MissingKeyIsItsOwnError ==
    (call.fn # "none" /\ ~Truthy(apiKey)) =>
        /\ call.requests = 0
        /\ call.reply = NoReply
        /\ ~(call.outcome.kind = "throw" /\ call.outcome.error.message = GenerationFailedMsg)
        /\ ~(call.outcome.kind = "return" /\ call.outcome.value = TranslationFailed)
        /\ (call.fn = "generateMcqsFromText" \/ Truthy(call.text))
            => /\ call.outcome.kind = "throw"
               /\ call.outcome.error = Err(CredentialMsg)

\* translateText of a non-empty text has thrown with API_KEY missing.
C5_Witness ==
    /\ call.fn = "translateText"
    /\ ~Truthy(apiKey)
    /\ Truthy(call.text)
    /\ call.outcome.kind = "throw"

\* The selected file's text is under the threshold once trimmed.
TooShort == pdfFile \in PdfFiles /\ Len(Trim(PagesText(FilePages(pdfFile)))) < MinTextLength

\* C6: when the trimmed text of the PDF is shorter than 100, the submit never
\* issues a generation request, reports the too-short error and ends on the
\* welcome screen with an empty quiz.
C6_ShortTextNeverReachesTheModel ==
    TooShort =>
        /\ pc # "generateContent"
        /\ appState # "results"
        /\ appState = "loading" => aiRequests = 0
        /\ (lastAction = "getTextContent" /\ pc = "idle")
            => /\ aiRequests = 0
               /\ error = AnErrorOccurred(TooShortMsg)
               /\ appState = "welcome"
               /\ mcqs = <<>>

\* A file whose raw text has at least 100 characters and whose trimmed text
\* has fewer was submitted with the key set, and was refused as too short.
C6_Witness ==
    /\ TooShort
    /\ Len(PagesText(FilePages(pdfFile))) >= MinTextLength
    /\ Truthy(apiKey)
    /\ lastAction = "getTextContent"
    /\ pc = "idle"
    /\ error = AnErrorOccurred(TooShortMsg)

\* C7 as stated: right after Start Over the screen is welcome, no file is
\* selected, the quiz and the AnswerSet are empty and there is no error.
C7_StartOverResetsEverything ==
    lastAction = "handleTryAgain" =>
        /\ appState = "welcome"
        /\ pdfFile = NoFile
        /\ mcqs = <<>>
        /\ testAnswers = NoAnswers
        /\ error = Null

\* The questions whose stored answer is the correct one.
CorrectlyAnswered ==
    {i \in 0..(Len(mcqs) - 1) : i \in DOMAIN testAnswers /\ testAnswers[i] = mcqs[i + 1].answer}

\* The highlighting of option o of card i, with the props App passes.
OptionClass(i, o) ==
    GetOptionClasses(mcqs[i + 1], AnswerAt(testAnswers, i), ShowAnswer, mcqs[i + 1].options[o])

\* C8: a test can be submitted whatever subset of questions is answered; the
\* summary then shows the number of questions whose stored answer is the
\* correct one, out of the length of the quiz, and the number of AnswerSet
\* entries; an unanswered question has no option marked as selected, and every
\* card, answered or not, shows the correctness highlighting.
C8_SummaryOfASubmittedTest ==
    /\ (appState = "results" /\ resultsMode = "test" /\ ~showTestScore /\ mcqs # <<>>)
        => ENABLED HandleSubmitTest
    /\ SummaryShown =>
        /\ score = Cardinality(CorrectlyAnswered)
        /\ AnsweredCount = Cardinality({i \in Cards : AnswerAt(testAnswers, i) # Undefined})
        /\ \A i \in Cards : \A o \in DOMAIN mcqs[i + 1].options :
            /\ OptionClass(i, o) \in {"correct", "incorrect", "plain"}
            /\ OptionClass(i, o) = "correct" <=> mcqs[i + 1].options[o] = mcqs[i + 1].answer
            /\ i \notin DOMAIN testAnswers => OptionClass(i, o) # "incorrect"
        /\ \A i \in Cards : \E o \in DOMAIN mcqs[i + 1].options : OptionClass(i, o) = "correct"

\* A test of three questions submitted with two answered, one of them right.
C8_Witness ==
    /\ SummaryShown
    /\ lastAction = "handleSubmitTest"
    /\ Len(mcqs) = 3
    /\ AnsweredCount = 2
    /\ score = 1

\* The correct answer of card i can be seen: the Correct Answer box is
\* rendered, or the options carry the correctness highlighting.
AnswerVisible(i) ==
    \/ CorrectAnswerBoxShown(resultsMode, ShowAnswer)
    \/ \E o \in DOMAIN mcqs[i + 1].options : OptionClass(i, o) \in {"correct", "incorrect", "plain"}

\* An option button of card i can be clicked.
Selectable(i) == \E o \in 1..MaxOptions : ENABLED HandleAnswerSelect(i, o)

\* C9: on the results screen the correct answer and the correctness colouring
\* of a card are visible exactly in study mode and in a submitted test; in an
\* unsubmitted test they are concealed and the options can be selected, and
\* options can be selected in no other state.
C9_AnswersShownOrSelectable ==
    /\ \A i \in Cards :
        /\ AnswerVisible(i) <=> (resultsMode = "study" \/ (resultsMode = "test" /\ showTestScore))
        /\ Selectable(i) <=> (resultsMode = "test" /\ ~showTestScore)
        /\ ~(AnswerVisible(i) /\ Selectable(i))
    /\ \A i \in 0..(MaxMcqs - 1) : Selectable(i) => i \in Cards

\* A submitted test: answers are recorded, shown, and no longer selectable.
C9_Witness ==
    /\ appState = "results"
    /\ resultsMode = "test"
    /\ showTestScore
    /\ testAnswers # NoAnswers
    /\ \A i \in Cards : AnswerVisible(i) /\ ~Selectable(i)

\* C10: submitted implies test mode in every state; it becomes true only by
\* the Submit Test action, taken on the results screen in test mode with a
\* non-empty quiz; it is false after every switch to study mode and after the
\* start of every generation.
C10_SubmittedOnlyInTestMode ==
    /\ [](showTestScore => resultsMode = "test")
    /\ [][/\ (~showTestScore /\ showTestScore')
               => /\ HandleSubmitTest
                  /\ appState = "results" /\ resultsMode = "test" /\ mcqs # <<>>
          /\ resultsMode' = "study" /\ resultsMode # "study" => ~showTestScore'
          /\ StudyModeClick => ~showTestScore'
          /\ (pc = "idle" /\ pc' # "idle") => ~showTestScore']_vars

\* After Start Over from a submitted test the welcome screen still holds
\* submitted = true, in test mode.
C10_Witness ==
    /\ lastAction = "handleTryAgain"
    /\ appState = "welcome"
    /\ showTestScore
    /\ resultsMode = "test"


\* An error message is displayed.
ErrorShown(e) == e # Null /\ Truthy(e)

\* C11: the screen leaves welcome only for loading, by a submit with a PDF
\* file selected; it enters results only from loading, when the text of the
\* file is long enough, the key is set and generation returned a quiz, and
\* then in study mode with an empty AnswerSet and submitted false; every
\* failure (a selection that is no PDF, a submit without a file, a rejected
\* extraction, a short text, a missing key, a failed generation) ends on
\* welcome with a non-empty error message; results is left only by Start
\* Over, for welcome.
C11_ScreenTransitions ==
    [][/\ (appState = "welcome" /\ appState' # "welcome")
            => HandleSubmit /\ pdfFile \in PdfFiles /\ appState' = "loading"
       /\ (appState = "loading" /\ appState' # "loading")
            => \/ /\ appState' = "results"
                  /\ pc = "generateContent"
                  /\ pdfFile \in PdfFiles /\ ~TooShort /\ Truthy(apiKey)
                  /\ GenerateMcqsFromText(apiKey, quizReply').kind = "return"
                  /\ mcqs' = GenerateMcqsFromText(apiKey, quizReply').value
                  /\ resultsMode' = "study"
                  /\ testAnswers' = NoAnswers
                  /\ ~showTestScore'
                  /\ error' = Null
               \/ /\ appState' = "welcome"
                  /\ ErrorShown(error')
                  /\ mcqs' = <<>>
                  /\ \/ pc # "generateContent"
                     \/ GenerateMcqsFromText(apiKey, quizReply').kind = "throw"
       /\ (appState = "results" /\ appState' # "results")
            => HandleTryAgain /\ appState' = "welcome"
       /\ (\E file \in OtherFiles \cup {NoFile} : HandleFileChange(file))
            => appState' = "welcome" /\ ErrorShown(error')
       /\ (HandleSubmit /\ pdfFile = NoFile)
            => appState' = "welcome" /\ ErrorShown(error')
       /\ (\E e \in PdfErrors : ExtractionRejects(e))
            => appState' = "welcome" /\ ErrorShown(error')
       /\ (GetTextContentResolves /\ pc' = "idle")
            => /\ appState' = "welcome"
               /\ error' \in {AnErrorOccurred(TooShortMsg), AnErrorOccurred(CredentialMsg)}
       /\ (pc = "generateContent" /\ pc' # "generateContent"
             /\ GenerateMcqsFromText(apiKey, quizReply').kind = "throw")
            => appState' = "welcome" /\ ErrorShown(error')]_vars

\* Results were entered by a successful generation with a non-empty quiz: in
\* study mode, nothing answered, nothing submitted, no error.
C11_Witness ==
    /\ appState = "results"
    /\ lastAction = "generateContent"
    /\ mcqs # <<>>
    /\ resultsMode = "study"
    /\ testAnswers = NoAnswers
    /\ ~showTestScore
    /\ error = Null

\* A failed generation has returned the session to welcome with its message.
C11_FailureWitness ==
    /\ appState = "welcome"
    /\ lastAction = "generateContent"
    /\ error = AnErrorOccurred(GenerationFailedMsg)
    /\ mcqs = <<>>

\* A reply that is a credential failure: the request was rejected for its key.
CredentialFailure(reply) ==
    reply.kind = "reject" /\ reply.error = Err(<<"API", "key", "not", "valid.">>)

\* A reply that is any other failure: another rejection, or no text.
OtherFailure(reply) ==
    \/ reply.kind = "reject" /\ ~CredentialFailure(reply)
    \/ reply.kind = "noText"

\* The entry the settlement of a request has added to the card's log.
LastSettled(c) == c.settled[Len(c.settled)]

\* The values of the attached Translation, the question's first.
TranslationValues == <<card.translation.question>> \o card.translation.options

\* A request of the batch has thrown.
BatchAborted == \E j \in DOMAIN card.settled : card.settled[j].outcome.kind = "throw"

\* C12: in a card's batch a request that fails otherwise than for the
\* credential yields the failure text, a request that fails for the credential
\* throws, and a request that succeeds yields its trimmed text; when the
\* handler resumes after a batch in which nothing threw, the Translation is
\* attached and shown, each position holding the result of its own request;
\* when a request threw, nothing is attached; either way the card is no longer
\* translating, and no step of the batch changes the screen, the mode,
\* submitted, the AnswerSet, the Quiz or the other card.
C12_FailureStaysInItsPosition ==
    [][/\ Len(card'.settled) = Len(card.settled) + 1 =>
            \A reply \in TranslationReplies :
                TranslateSettles(LastSettled(card').request, reply) =>
                    /\ OtherFailure(reply)
                        => LastSettled(card').outcome = Return(TranslationFailed)
                    /\ CredentialFailure(reply)
                        => LastSettled(card').outcome = Throw(reply.error)
                    /\ reply.kind = "text"
                        => LastSettled(card').outcome = Return(Trim(reply.text))
       /\ AwaitResumes =>
            /\ ~card'.isTranslating
            /\ IF BatchAborted
               THEN /\ ~card'.translation.present
                    /\ card'.showTranslation = card.showTranslation
               ELSE /\ card'.translation.present
                    /\ card'.showTranslation
                    /\ \A k \in DOMAIN BatchTexts(card.mcq) :
                          (<<card'.translation.question>> \o card'.translation.options)[k]
                              = SettledValue(k)
       /\ (HandleTranslate \/ AwaitResumes \/ card'.settled # card.settled)
            => /\ <<appState, resultsMode, showTestScore, testAnswers, mcqs>>'
                    = <<appState, resultsMode, showTestScore, testAnswers, mcqs>>
               /\ card'.other = card.other]_vars

\* A Translation is attached and shown on an idle card, after the request for
\* the first option failed: that position holds the failure text, the question
\* and the second option hold their translations; the other card is showing
\* its own translation.
C12_Witness ==
    /\ card.mounted
    /\ ~card.isTranslating
    /\ card.translation.present
    /\ card.showTranslation
    /\ Len(card.translation.options) = 2
    /\ card.translation.options[1] = TranslationFailed
    /\ card.translation.question # TranslationFailed
    /\ card.translation.options[2] # TranslationFailed
    /\ card.translation.question = SettledValue(1)
    /\ card.other.translated /\ card.other.showTranslation

\* A batch aborted by a credential failure while a request was still
\* outstanding: the card is idle with nothing attached.
C12_AbortWitness ==
    /\ card.mounted
    /\ ~card.isTranslating
    /\ ~card.translation.present
    /\ BatchAborted
    /\ Len(card.settled) < Len(BatchTexts(card.mcq))

\* Some control of the user interface can be operated: the file input, the
\* submit button, an option button, a mode button, Submit Test, Start Over.
UserActionAvailable ==
    \/ ENABLED (\E file \in PdfFiles \cup OtherFiles \cup {NoFile} : HandleFileChange(file))
    \/ ENABLED HandleSubmit
    \/ ENABLED (\E i \in 0..(MaxMcqs - 1), o \in 1..MaxOptions : HandleAnswerSelect(i, o))
    \/ ENABLED StudyModeClick
    \/ ENABLED TestModeClick
    \/ ENABLED HandleSubmitTest
    \/ ENABLED HandleTryAgain

\* A handleSubmit is between its first await and its end.
GenerationInFlight == pc # "idle"

\* C13: a generation is in flight exactly while the screen is loading; then
\* no control is available to the user and at most one generation request has
\* been issued since the submit; the quiz on the results screen is the one
\* obtained from the reply to that single request.
C13_OneGenerationInFlight ==
    /\ GenerationInFlight <=> appState = "loading"
    /\ appState = "loading" => ~UserActionAvailable /\ aiRequests <= 1
    /\ pc = "generateContent" => aiRequests = 1
    /\ appState = "results" =>
        /\ aiRequests = 1
        /\ GenerateMcqsFromText(apiKey, quizReply).kind = "return"
        /\ mcqs = GenerateMcqsFromText(apiKey, quizReply).value

\* The generation request is outstanding on the loading screen, after an
\* earlier quiz was left by Start Over; nothing can be clicked.
C13_Witness ==
    /\ appState = "loading"
    /\ pc = "generateContent"
    /\ aiRequests = 1
    /\ resultsMode = "test"
    /\ ~UserActionAvailable

\* C14: the selection of option o of question i sets AnswerSet[i] to that
\* option, whatever was stored for i before and whether or not the option is
\* the correct answer; the entries of the other questions, the Quiz, the mode,
\* submitted and the screen stay as they were.
C14_SelectionRecordsTheOption ==
    [][\A i \in 0..(MaxMcqs - 1), o \in 1..MaxOptions :
          HandleAnswerSelect(i, o) =>
            /\ DOMAIN testAnswers' = DOMAIN testAnswers \cup {i}
            /\ testAnswers'[i] = mcqs[i + 1].options[o]
            /\ \A j \in DOMAIN testAnswers : j # i => testAnswers'[j] = testAnswers[j]
            /\ <<mcqs, resultsMode, showTestScore, appState>>'
                   = <<mcqs, resultsMode, showTestScore, appState>>]_vars

\* The last action was a selection; a wrong option is recorded for question 1
\* next to the right answer of question 0.
C14_Witness ==
    /\ lastAction = "handleAnswerSelect"
    /\ appState = "results"
    /\ Len(mcqs) >= 2
    /\ DOMAIN testAnswers = {0, 1}
    /\ testAnswers[0] = mcqs[1].answer
    /\ testAnswers[1] # mcqs[2].answer

\* The test is submitted and its summary is on screen.
Locked == appState = "results" /\ showTestScore

\* C15: from a submitted test, every step other than a switch to study mode
\* or Start Over leaves the test submitted and the AnswerSet, the Quiz, the
\* score and the answered count as they were; in study mode on the results
\* screen no option can be selected and no step changes the AnswerSet.
C15_SubmittedScoreIsLocked ==
    /\ []((appState = "results" /\ resultsMode = "study")
            => \A i \in 0..(MaxMcqs - 1) : ~Selectable(i))
    /\ [](Locked => \A i \in 0..(MaxMcqs - 1) : ~Selectable(i))
    /\ [][/\ (Locked /\ ~StudyModeClick /\ ~HandleTryAgain)
               => /\ Locked'
                  /\ testAnswers' = testAnswers
                  /\ mcqs' = mcqs
                  /\ score' = score
                  /\ AnsweredCount' = AnsweredCount
          /\ (appState = "results" /\ resultsMode = "study")
               => testAnswers' = testAnswers]_vars

\* The Test Mode button was clicked on a submitted test with two answers, one
\* of them right: the test is still submitted.
C15_Witness ==
    /\ Locked
    /\ lastAction = "testMode"
    /\ AnsweredCount = 2
    /\ score = 1

\* C16 as stated: on every screen each key of the AnswerSet is an index of
\* the current Quiz and its value is one of the options of that question.
C16_AnswerSetWithinTheQuiz ==
    \A i \in DOMAIN testAnswers :
        /\ i \in 0..(Len(mcqs) - 1)
        /\ \E o \in DOMAIN mcqs[i + 1].options : testAnswers[i] = mcqs[i + 1].options[o]

\* What the code keeps: the same on the results screen, where the AnswerSet
\* is displayed, and on the loading screen, where it is empty.
AnswerSetWithinTheQuizOnResults ==
    /\ appState = "results" => C16_AnswerSetWithinTheQuiz
    /\ appState = "loading" => testAnswers = NoAnswers

\* The texts of pages 1..n, each followed by a blank line.
RECURSIVE TextOfFirst(_, _)
TextOfFirst(pages, n) ==
    IF n = 0 THEN <<>>
    ELSE TextOfFirst(pages, n - 1) \o JoinSpace(pages[n]) \o <<"\n", "\n">>

\* The retrieval of a page is outstanding: the page, or its text content.
PageInFlight == pc \in {"getPage", "getTextContent"}

\* C17: while a page is being retrieved it is the one page pageNo of 1..N, and
\* the text so far is that of the pages before it, in order and each followed
\* by a blank line; the page number starts at 1 and moves to the next page
\* only when the text of the current page has been appended; the text sent
\* for generation is that of all N pages; a rejection ends the extraction on
\* the welcome screen without a generation request.
C17_PagesInOrder ==
    /\ [](PageInFlight =>
            /\ pageNo \in 1..Len(FilePages(pdfFile))
            /\ fullText = TextOfFirst(FilePages(pdfFile), pageNo - 1))
    /\ [](pc = "generateContent" =>
            fullText = TextOfFirst(FilePages(pdfFile), Len(FilePages(pdfFile))))
    /\ [][/\ (PageInFlight' /\ pageNo' # pageNo) =>
               \/ pc = "getDocument" /\ pageNo' = 1
               \/ /\ pc = "getTextContent"
                  /\ pageNo' = pageNo + 1
                  /\ fullText' = fullText \o JoinSpace(FilePages(pdfFile)[pageNo])
                                          \o <<"\n", "\n">>
          /\ (pc = "getPage" /\ pc' # "getPage") =>
               \/ pc' = "getTextContent" /\ pageNo' = pageNo /\ fullText' = fullText
               \/ \E e \in PdfErrors : ExtractionRejects(e)
          /\ (pc = "getTextContent" /\ pc' \notin {"getTextContent", "getPage"}) =>
               \/ pageNo = Len(FilePages(pdfFile))
               \/ \E e \in PdfErrors : ExtractionRejects(e)
          /\ (\E e \in PdfErrors : ExtractionRejects(e)) =>
               /\ pc' = "idle"
               /\ appState' = "welcome"
               /\ aiRequests' = 0]_vars

\* The text of a file of two pages is in the prompt of the generation request.
C17_Witness ==
    /\ pc = "generateContent"
    /\ Len(FilePages(pdfFile)) = 2
    /\ fullText = JoinSpace(FilePages(pdfFile)[1]) \o <<"\n", "\n">>
                    \o JoinSpace(FilePages(pdfFile)[2]) \o <<"\n", "\n">>
    /\ JoinSpace(FilePages(pdfFile)[1]) # JoinSpace(FilePages(pdfFile)[2])
    /\ aiRequests = 1

\* An await of the extraction of two.pdf was rejected: no request, back on
\* welcome.
C17_RejectionWitness ==
    /\ lastAction = "extractionRejects"
    /\ appState = "welcome"
    /\ aiRequests = 0
    /\ pdfFile = "two.pdf"

\* The translate action of a card that has no Translation: a batch starts.
FirstTranslate == HandleTranslate /\ ~card.translation.present

\* The positions of the card's batch whose text is not empty.
NonEmptyTexts == {k \in DOMAIN BatchTexts(card.mcq) : BatchTexts(card.mcq)[k] # <<>>}

\* The part of C18 that does not depend on the size of the batch: a freshly
\* mounted card has issued no request; requests are issued by a translate
\* action on a card without Translation only, never on their own; the
\* translate button is disabled while a batch is in flight; once a Translation
\* is attached it is never replaced, and a translate action only toggles its
\* visibility; after an aborted batch nothing is attached and the button
\* starts a new batch.
TranslatedAtMostOnce ==
    /\ []((card.mounted /\ card.isTranslating) => ~ENABLED HandleTranslate)
    /\ []((card.mounted /\ ~card.isTranslating) => ENABLED HandleTranslate)
    /\ []((card.mounted /\ card.pending # {}) => card.isTranslating)
    /\ []((card.mounted /\ BatchAborted /\ ~card.isTranslating) => ~card.translation.present)
    /\ [][/\ (card'.pending \ card.pending # {} \/ card'.requests # card.requests)
               => FirstTranslate
          /\ FirstTranslate => card'.isTranslating /\ ~card'.translation.present
          /\ (HandleTranslate /\ card.translation.present)
               => card' = [card EXCEPT !.showTranslation = ~card.showTranslation]
          /\ card'.translation # card.translation
               => AwaitResumes /\ ~card.translation.present]_vars

\* C18 as stated: the first translate action issues 1 + number of options
\* requests, and the rest of the claim.
C18_OneRequestPerText ==
    /\ TranslatedAtMostOnce
    /\ [][FirstTranslate =>
            /\ card'.requests = 1 + Len(card.mcq.options)
            /\ card'.pending = 1..(1 + Len(card.mcq.options))]_vars

\* C18 as the code has it: the first translate action makes 1 + number of
\* options translateText calls, of which those for a non-empty text issue one
\* request each and those for an empty text return the empty text at once;
\* and the rest of the claim.
C18_OneRequestPerNonEmptyText ==
    /\ TranslatedAtMostOnce
    /\ [][FirstTranslate =>
            /\ Len(BatchTexts(card.mcq)) = 1 + Len(card.mcq.options)
            /\ card'.pending = NonEmptyTexts
            /\ card'.requests = Cardinality(NonEmptyTexts)
            /\ {card'.settled[j].request : j \in DOMAIN card'.settled}
                   = DOMAIN BatchTexts(card.mcq) \ NonEmptyTexts
            /\ \A j \in DOMAIN card'.settled : card'.settled[j].outcome = Return(<<>>)]_vars

\* A card whose first option is empty has its Translation attached, with the
\* failure text in it, and hidden again by a later translate action; its one
\* batch issued two requests.
C18_Witness ==
    /\ card.mounted
    /\ card.translation.present
    /\ ~card.showTranslation
    /\ ~card.isTranslating
    /\ Len(card.mcq.options) = 2
    /\ card.mcq.options[1] = <<>>
    /\ card.requests = 2
    /\ card.translation.options = <<<<>>, TranslationFailed>>

\* A new batch is in flight on a card whose earlier batch was aborted.
C18_RetryWitness ==
    /\ card.mounted
    /\ card.isTranslating
    /\ BatchAborted
    /\ card.pending # {}

\* C19: when every await settles, a session on the loading screen eventually
\* is on the results screen, or on the welcome screen with an error message.
C19_LoadingEnds ==
    (appState = "loading") ~>
        (appState = "results" \/ (appState = "welcome" /\ ErrorShown(error)))

\* The loading screen was left for results after the two pages of a file were
\* retrieved and the generation request was answered.
C19_Witness ==
    /\ appState = "results"
    /\ lastAction = "generateContent"
    /\ pdfFile \in PdfFiles
    /\ Len(FilePages(pdfFile)) = 2
    /\ error = Null

\* C20: the Quiz is empty on the welcome and loading screens, and there is no
\* error message on the loading and results screens.
C20_QuizAndErrorByScreen ==
    /\ appState \in {"welcome", "loading"} => mcqs = <<>>
    /\ appState \in {"loading", "results"} => error = Null

\* After a quiz was left in test mode, a file that is no PDF was selected: the
\* welcome screen shows the error, and the Quiz is empty.
C20_Witness ==
    /\ appState = "welcome"
    /\ lastAction = "handleFileChange"
    /\ resultsMode = "test"
    /\ ErrorShown(error)
    /\ mcqs = <<>>
====
